---- MODULE Spec2Model ----
(***************************************************************************)
(* Model of consensus/bor/snapshot.go: the Snapshot entity, copy, apply,   *)
(* store / loadSnapshot and inturn.                                        *)
(*                                                                         *)
(* Go pointers are modelled as references into three heaps (snapshots,     *)
(* validator sets, recents maps), so that aliasing between a snapshot and  *)
(* the snapshots derived from it is visible.  The ValidatorSet type,       *)
(* ecrecover and ParseValidators live outside snapshot.go; they are        *)
(* modelled from their contract.                                           *)
(***************************************************************************)
EXTENDS Integers, Sequences, FiniteSets, TLC

VARIABLES
    snaps,      \* heap of Snapshot objects: pointer -> Snapshot struct
    vsHeap,     \* heap of ValidatorSet objects: reference -> validator set
    recHeap,    \* heap of Recents maps: reference -> (height -> signer)
    published,  \* the snapshots constructed or returned so far: pointer ->
                \* the value the snapshot had when it was handed out
    calls,      \* one record per running / finished apply call
    db,         \* the key-value store: kv is key -> blob; stored remembers,
                \* per hash, the value of the snapshot last stored under it
    loaded,     \* the result of the last loadSnapshot
    weight      \* the arguments and result of the last inturn call

vars == <<snaps, vsHeap, recHeap, published, calls, db, loaded, weight>>

(***************************************************************************)
(* Bounds of the model.                                                    *)
(***************************************************************************)
MaxAddr == 2
MaxSprint == 2
MaxStart == 0
MaxRun == 2
MaxSnaps == 3
MaxHeight == 10

ZeroAddress == 0
Addrs == 0..MaxAddr
NoSigner == MaxAddr + 1
\* an address no candidate list holds: it may sign, it is never a validator
Outsider == MaxAddr + 2
Nil == 0
Procs == {1, 2}

(***************************************************************************)
(* Generic helpers.                                                        *)
(***************************************************************************)
Restrict(f, S) == [x \in S |-> f[x]]

Fresh(f) == CHOOSE n \in 1..(Cardinality(DOMAIN f) + 1) :
                /\ n \notin DOMAIN f
                /\ \A m \in 1..(n - 1) : m \in DOMAIN f

SetMin(S) == CHOOSE x \in S : \A y \in S : x <= y

RECURSIVE SortedSeq(_)
SortedSeq(S) == IF S = {} THEN <<>>
                ELSE <<SetMin(S)>> \o SortedSeq(S \ {SetMin(S)})

Range(q) == {q[i] : i \in 1..Len(q)}

BoundedSeqs(S, n) == UNION {[1..k -> S] : k \in 0..n}

(***************************************************************************)
(* ValidatorSet, modelled from its contract: an ordered collection of      *)
(* validators (native order: ascending address) with a current proposer   *)
(* and a cached total voting power (every validator has unit power).       *)
(***************************************************************************)
NewValidatorSet(validators, proposer) ==
    [Validators |-> SortedSeq(validators),
     Proposer |-> proposer,
     totalVotingPower |-> Cardinality(validators)]

VSCopy(vs) ==
    [Validators |-> [i \in 1..Len(vs.Validators) |-> vs.Validators[i]],
     Proposer |-> vs.Proposer,
     totalVotingPower |-> vs.totalVotingPower]

HasAddress(vs, addr) == addr \in Range(vs.Validators)

\* GetByAddress returns the index of addr, or -1 when addr is no member.
GetByAddress(vs, addr) ==
    IF HasAddress(vs, addr)
    THEN (CHOOSE i \in 1..Len(vs.Validators) : vs.Validators[i] = addr) - 1
    ELSE -1

GetProposer(vs) == vs.Proposer

updateTotalVotingPower(vs) ==
    [vs EXCEPT !.totalVotingPower = Len(vs.Validators)]

\* The merge of the current set with the candidate list of an epoch header:
\* the members become the candidates (an empty candidate list changes
\* nothing); the proposer is kept while it stays a member.
getUpdatedValidatorSet(old, newVals) ==
    IF newVals = {} THEN old
    ELSE [Validators |-> SortedSeq(newVals),
          Proposer |-> IF old.Proposer \in newVals THEN old.Proposer
                       ELSE SetMin(newVals),
          totalVotingPower |-> Cardinality(newVals)]

\* One rotation step per unit of times: the proposer becomes the next
\* validator in order.
IncrementProposerPriority(vs, times) ==
    LET n == Len(vs.Validators)
        p == GetByAddress(vs, vs.Proposer)
    IN  [vs EXCEPT !.Proposer = vs.Validators[((p + times) % n) + 1]]

VSets == {NewValidatorSet(m, p) : <<m, p>> \in
             {mp \in (SUBSET Addrs) \X Addrs : mp[1] # {} /\ mp[2] \in mp[1]}}

(***************************************************************************)
(* Headers.  A header is read through its number, its hash, the signer     *)
(* ecrecover recovers from its seal (NoSigner: recovery fails) and the two  *)
(* results of ParseValidators on its extra data: the candidate validator   *)
(* list and the error ("nil": none; with an error the list is empty).      *)
(***************************************************************************)
Header(number, signer, newVals, parseErr) ==
    [Number |-> number, Signer |-> signer, NewVals |-> newVals,
     ParseErr |-> parseErr]

HeaderHash(h) == <<h.Number, h.Signer, h.NewVals, h.ParseErr>>

GenesisHash(number) == <<number, NoSigner, {}, "nil">>

errOutOfRangeChain == "errOutOfRangeChain"
errMissingSignature == "errMissingSignature"
errUnauthorizedSigner == "errUnauthorizedSigner"
errRecentlySigned == "errRecentlySigned"
errInvalidValidators == "Invalid validators bytes"
noErr == "nil"

(***************************************************************************)
(* Snapshot objects and the heaps.                                         *)
(***************************************************************************)
\* The persisted fields of the snapshot at pointer p, references followed.
Value(p) ==
    [Number |-> snaps[p].Number,
     Hash |-> snaps[p].Hash,
     ValidatorSet |-> vsHeap[snaps[p].ValidatorSet],
     Recents |-> recHeap[snaps[p].Recents]]

\* Objects no snapshot refers to any more are reclaimed.
LiveVS(sn, vsH) == Restrict(vsH, {sn[p].ValidatorSet : p \in DOMAIN sn})
LiveRec(sn, recH) == Restrict(recH, {sn[p].Recents : p \in DOMAIN sn})

EmptyMap == [x \in {} |-> Nil]

\* newSnapshot: empty recents, a validator set built from the validators.
newSnapshot(config, sigcache, number, hash, vsRef, recRef, ethAPI) ==
    [config |-> config, ethAPI |-> ethAPI, sigcache |-> sigcache,
     Number |-> number, Hash |-> hash,
     ValidatorSet |-> vsRef, Recents |-> recRef]

\* copy: a new Snapshot struct sharing the transient collaborators, with a
\* copy of the validator set and a new recents map filled entry by entry.
\* The result names the new struct and the heaps after the allocations.
copyAliasRecents(s, vsH, recH) ==
    LET vref == Fresh(vsH)
    IN  [snap |-> [s EXCEPT !.ValidatorSet = vref],
         vsH |-> vsH @@ (vref :> VSCopy(vsH[s.ValidatorSet])),
         recH |-> recH]

copyAliasValidatorSet(s, vsH, recH) ==
    LET rref == Fresh(recH)
    IN  [snap |-> [s EXCEPT !.Recents = rref],
         vsH |-> vsH,
         recH |-> recH @@ (rref :> [block \in DOMAIN recH[s.Recents] |->
                                       recH[s.Recents][block]])]

copyEmptyRecents(s, vsH, recH) ==
    LET vref == Fresh(vsH)
        rref == Fresh(recH)
    IN  [snap |-> [config |-> s.config, ethAPI |-> s.ethAPI,
                   sigcache |-> s.sigcache,
                   Number |-> s.Number, Hash |-> s.Hash,
                   ValidatorSet |-> vref, Recents |-> rref],
         vsH |-> vsH @@ (vref :> VSCopy(vsH[s.ValidatorSet])),
         recH |-> recH @@ (rref :> EmptyMap)]

copy(s, vsH, recH) ==
    LET vref == Fresh(vsH)
        rref == Fresh(recH)
    IN  [snap |-> [config |-> s.config, ethAPI |-> s.ethAPI,
                   sigcache |-> s.sigcache,
                   Number |-> s.Number, Hash |-> s.Hash,
                   ValidatorSet |-> vref, Recents |-> rref],
         vsH |-> vsH @@ (vref :> VSCopy(vsH[s.ValidatorSet])),
         recH |-> recH @@ (rref :> [block \in DOMAIN recH[s.Recents] |->
                                       recH[s.Recents][block]])]

(***************************************************************************)
(* apply: the checks made before the loop.                                 *)
(***************************************************************************)
Contiguous(numbers) ==
    \A i \in 1..(Len(numbers) - 1) : numbers[i + 1] = numbers[i] + 1

\* Which way apply leaves its prologue: "identity" (no headers, s itself is
\* returned), "outOfRange" (errOutOfRangeChain) or "loop".
EntryRejectEmpty(sNumber, numbers) ==
    IF Len(numbers) = 0 THEN "outOfRange"
    ELSE IF ~Contiguous(numbers) THEN "outOfRange"
    ELSE IF numbers[1] # sNumber + 1 THEN "outOfRange"
    ELSE "loop"

EntryNoAdjacency(sNumber, numbers) ==
    IF Len(numbers) = 0 THEN "identity"
    ELSE IF ~Contiguous(numbers) THEN "outOfRange"
    ELSE "loop"

Entry(sNumber, numbers) ==
    IF Len(numbers) = 0 THEN "identity"
    ELSE IF ~Contiguous(numbers) THEN "outOfRange"
    ELSE IF numbers[1] # sNumber + 1 THEN "outOfRange"
    ELSE "loop"

(***************************************************************************)
(* apply: the steps of the loop body.                                      *)
(***************************************************************************)
\* delete(snap.Recents, number - Sprint) when number >= Sprint
EvictLate(recents, number, sprint) ==
    IF number > sprint + 1
    THEN Restrict(recents, DOMAIN recents \ {number - sprint})
    ELSE recents

Evict(recents, number, sprint) ==
    IF number >= sprint /\ number - sprint >= 0
    THEN Restrict(recents, DOMAIN recents \ {number - sprint})
    ELSE recents

\* the header changes the validator set and the proposer
IsEpochBlockAtStart(number, sprint) == number > 0 /\ number % sprint = 0

IsEpochBlock(number, sprint) == number > 0 /\ (number + 1) % sprint = 0

TurnLimitRoundedUp(total) == total - (((total + 1) \div 2) + 1)

TurnLimit(total) == total - ((total \div 2) + 1)

\* The turn-distance check: TRUE when apply returns errRecentlySigned.
RecentlySignedOffByOne(vs, signer) ==
    LET total == Len(vs.Validators)
        proposerIndex == GetByAddress(vs, GetProposer(vs))
        signerIndex == GetByAddress(vs, signer)
        limit == TurnLimit(total)
        tempIndex == IF signerIndex < proposerIndex
                     THEN signerIndex + total ELSE signerIndex
    IN  /\ proposerIndex # signerIndex
        /\ limit > 0
        /\ tempIndex - proposerIndex >= limit

RecentlySigned(vs, signer) ==
    LET total == Len(vs.Validators)
        proposerIndex == GetByAddress(vs, GetProposer(vs))
        signerIndex == GetByAddress(vs, signer)
        limit == TurnLimit(total)
        tempIndex == IF signerIndex < proposerIndex
                     THEN signerIndex + total ELSE signerIndex
    IN  /\ proposerIndex # signerIndex
        /\ limit > 0
        /\ tempIndex - proposerIndex > limit

\* The checks on one header, in the order of the code: the failure of
\* ecrecover (lines 192-195), then, the swap of lines 198-205 having turned
\* the validator set before into the set after, the membership check (lines
\* 212-214) and the turn-distance check (lines 220-240) on the set after.
\* The result is the error apply returns, noErr when the header passes.
CheckSignerBeforeSwap(signer, before, after) ==
    IF signer = NoSigner THEN errMissingSignature
    ELSE IF ~HasAddress(before, signer) THEN errUnauthorizedSigner
    ELSE IF RecentlySigned(before, signer) THEN errRecentlySigned
    ELSE noErr

CheckSignerTurnFirst(signer, before, after) ==
    IF signer = NoSigner THEN errMissingSignature
    ELSE IF RecentlySigned(after, signer) THEN errRecentlySigned
    ELSE IF ~HasAddress(after, signer) THEN errUnauthorizedSigner
    ELSE noErr

CheckSigner(signer, before, after) ==
    IF signer = NoSigner THEN errMissingSignature
    ELSE IF ~HasAddress(after, signer) THEN errUnauthorizedSigner
    ELSE IF RecentlySigned(after, signer) THEN errRecentlySigned
    ELSE noErr

\* snap.Recents[number] = signer (line 243)
RecordAtPrevious(recents, number, signer) ==
    [b \in DOMAIN recents \cup {number - 1} |->
        IF b = number - 1 THEN signer ELSE recents[b]]

Record(recents, number, signer) ==
    [b \in DOMAIN recents \cup {number} |->
        IF b = number THEN signer ELSE recents[b]]

\* What ParseValidators may return: any candidate list without error, or
\* no list and an error.
ParseResults ==
    {[vals |-> v, err |-> noErr] : v \in SUBSET Addrs}
        \cup {[vals |-> {}, err |-> errInvalidValidators]}

\* The parse results a header at this height may give: only an epoch
\* block's extra data is read.
CandidateLists(number, sprint) ==
    IF IsEpochBlock(number, sprint) THEN ParseResults
    ELSE {[vals |-> {}, err |-> noErr]}

(***************************************************************************)
(* The apply calls.  A call record holds the receiver s, the numbers of    *)
(* the run, the headers read so far, the working copy snap, the loop       *)
(* index, the returned pointer and error, the value s had on entry, and    *)
(* the validator set in force at each header read.                         *)
(***************************************************************************)
IdleCall ==
    [pc |-> "idle", s |-> Nil, numbers |-> <<>>, hdrs |-> <<>>,
     snap |-> Nil, i |-> 0, ret |-> Nil, err |-> noErr,
     pre |-> Nil, sets |-> <<>>]

\* The runs offered to apply on a snapshot at height n.
Runs(n) == BoundedSeqs(n..(n + MaxRun + 1), MaxRun)

\* apply, up to the copy (lines 166-180).  Calls are made while the heap
\* holds fewer than MaxSnaps snapshots.
ApplyEnter(c, p, numbers) ==
    /\ calls[c].pc # "loop"
    /\ p \in DOMAIN published
    /\ Cardinality(DOMAIN snaps) < MaxSnaps
    /\ LET s == snaps[p]
           way == Entry(s.Number, numbers)
           base == [IdleCall EXCEPT !.s = p, !.numbers = numbers,
                                    !.pre = Value(p)]
       IN  CASE way = "identity" ->
                  /\ calls' = [calls EXCEPT ![c] =
                                  [base EXCEPT !.pc = "done", !.ret = p]]
                  /\ UNCHANGED <<snaps, vsHeap, recHeap>>
             [] way = "outOfRange" ->
                  /\ calls' = [calls EXCEPT ![c] =
                                  [base EXCEPT !.pc = "done",
                                               !.err = errOutOfRangeChain]]
                  /\ UNCHANGED <<snaps, vsHeap, recHeap>>
             [] way = "loop" ->
                  /\ LET cp == copy(s, vsHeap, recHeap)
                         q == Fresh(snaps)
                     IN  /\ snaps' = snaps @@ (q :> cp.snap)
                         /\ vsHeap' = cp.vsH
                         /\ recHeap' = cp.recH
                         /\ calls' = [calls EXCEPT ![c] =
                                         [base EXCEPT !.pc = "loop",
                                                      !.snap = q, !.i = 1]]
    /\ UNCHANGED <<published, db, loaded, weight>>

\* One iteration of the loop (lines 182-246) on the next header of the run.
ApplyLoop(c) ==
    /\ calls[c].pc = "loop"
    /\ calls[c].i <= Len(calls[c].numbers)
    /\ LET cl == calls[c]
           s == snaps[cl.s]
           q == cl.snap
           snap == snaps[q]
           number == cl.numbers[cl.i]
           sprint == s.config.Sprint
       IN  \E signer \in Addrs \cup {Outsider, NoSigner},
              parsed \in CandidateLists(number, sprint) :
           LET newVals == parsed.vals
               header == Header(number, signer, newVals, parsed.err)
               recH1 == [recHeap EXCEPT ![snap.Recents] =
                            Evict(@, number, sprint)]
               swap == signer # NoSigner /\ IsEpochBlock(number, sprint)
               vref == IF swap THEN Fresh(vsHeap) ELSE snap.ValidatorSet
               vsH1 == IF swap
                       THEN vsHeap @@ (vref :> IncrementProposerPriority(
                                getUpdatedValidatorSet(
                                    VSCopy(vsHeap[snap.ValidatorSet]),
                                    newVals), 1))
                       ELSE vsHeap
               snaps1 == [snaps EXCEPT ![q].ValidatorSet = vref]
               err == CheckSigner(signer, vsHeap[snap.ValidatorSet],
                                  vsH1[vref])
               recH2 == [recH1 EXCEPT ![snap.Recents] =
                            Record(@, number, signer)]
               done == [cl EXCEPT !.hdrs = Append(@, header),
                                  !.sets = Append(@, vsH1[vref])]
           IN  IF err # noErr
               THEN LET left == Restrict(snaps1, DOMAIN snaps1 \ {q})
                    IN  /\ snaps' = left
                        /\ vsHeap' = LiveVS(left, vsH1)
                        /\ recHeap' = LiveRec(left, recH1)
                        /\ calls' = [calls EXCEPT ![c] =
                                        [done EXCEPT !.pc = "done",
                                                     !.snap = Nil,
                                                     !.err = err]]
               ELSE /\ snaps' = snaps1
                    /\ vsHeap' = LiveVS(snaps1, vsH1)
                    /\ recHeap' = LiveRec(snaps1, recH2)
                    /\ calls' = [calls EXCEPT ![c] =
                                    [done EXCEPT !.i = @ + 1]]
    /\ UNCHANGED <<published, db, loaded, weight>>

\* After the loop (lines 247-250): number and hash are set, snap returned.
ApplyReturnAnyHash(c) ==
    /\ calls[c].pc = "loop"
    /\ calls[c].i > Len(calls[c].numbers)
    /\ LET cl == calls[c]
           q == cl.snap
       IN  \E k \in 1..Len(cl.hdrs) :
           /\ snaps' = [snaps EXCEPT
                          ![q].Number = @ + Len(cl.numbers),
                          ![q].Hash = HeaderHash(cl.hdrs[k])]
           /\ published' = published @@ (q :> [Value(q) EXCEPT
                          !.Number = snaps'[q].Number,
                          !.Hash = snaps'[q].Hash])
           /\ calls' = [calls EXCEPT ![c] =
                           [cl EXCEPT !.pc = "done", !.snap = Nil,
                                      !.ret = q]]
    /\ UNCHANGED <<vsHeap, recHeap, db, loaded, weight>>

ApplyReturnByOne(c) ==
    /\ calls[c].pc = "loop"
    /\ calls[c].i > Len(calls[c].numbers)
    /\ LET cl == calls[c]
           q == cl.snap
       IN  /\ snaps' = [snaps EXCEPT
                          ![q].Number = @ + 1,
                          ![q].Hash = HeaderHash(cl.hdrs[Len(cl.hdrs)])]
           /\ published' = published @@ (q :> [Value(q) EXCEPT
                          !.Number = snaps'[q].Number,
                          !.Hash = snaps'[q].Hash])
           /\ calls' = [calls EXCEPT ![c] =
                           [cl EXCEPT !.pc = "done", !.snap = Nil,
                                      !.ret = q]]
    /\ UNCHANGED <<vsHeap, recHeap, db, loaded, weight>>

ApplyReturn(c) ==
    /\ calls[c].pc = "loop"
    /\ calls[c].i > Len(calls[c].numbers)
    /\ LET cl == calls[c]
           q == cl.snap
       IN  /\ snaps' = [snaps EXCEPT
                          ![q].Number = @ + Len(cl.numbers),
                          ![q].Hash = HeaderHash(cl.hdrs[Len(cl.hdrs)])]
           /\ published' = published @@ (q :> [Value(q) EXCEPT
                          !.Number = snaps'[q].Number,
                          !.Hash = snaps'[q].Hash])
           /\ calls' = [calls EXCEPT ![c] =
                           [cl EXCEPT !.pc = "done", !.snap = Nil,
                                      !.ret = q]]
    /\ UNCHANGED <<vsHeap, recHeap, db, loaded, weight>>

(***************************************************************************)
(* apply run alone, from the first statement to the last with no other     *)
(* call in between, as a function of the value of s, the sprint length and *)
(* the headers as read.  There is no heap here: v holds the validator set  *)
(* and the recents of the working copy themselves.                         *)
(***************************************************************************)
\* One iteration of the loop (lines 182-246): the error, and the working
\* copy after it.
stepAlone(v, sprint, h) ==
    LET recents == Evict(v.Recents, h.Number, sprint)
        swap == h.Signer # NoSigner /\ IsEpochBlock(h.Number, sprint)
        after == IF swap
                 THEN IncrementProposerPriority(
                          getUpdatedValidatorSet(VSCopy(v.ValidatorSet),
                                                 h.NewVals), 1)
                 ELSE v.ValidatorSet
        err == CheckSigner(h.Signer, v.ValidatorSet, after)
    IN  [err |-> err,
         ValidatorSet |-> after,
         Recents |-> IF err = noErr THEN Record(recents, h.Number, h.Signer)
                     ELSE recents]

\* The loop from header k on: the first error, or the working copy after
\* the last header.
RECURSIVE loopAlone(_, _, _, _)
loopAlone(v, sprint, hdrs, k) ==
    IF k > Len(hdrs) THEN [v EXCEPT !.err = noErr]
    ELSE LET next == stepAlone(v, sprint, hdrs[k])
         IN  IF next.err # noErr THEN next
             ELSE loopAlone(next, sprint, hdrs, k + 1)

\* The outcome of apply: the error, and with no error the persisted fields
\* of the snapshot returned.
applyAlone(pre, sprint, hdrs) ==
    LET numbers == [k \in 1..Len(hdrs) |-> hdrs[k].Number]
        way == Entry(pre.Number, numbers)
        last == loopAlone([err |-> noErr,
                           ValidatorSet |-> VSCopy(pre.ValidatorSet),
                           Recents |-> pre.Recents], sprint, hdrs, 1)
    IN  IF way = "identity" THEN [err |-> noErr, snap |-> pre]
        ELSE IF way = "outOfRange" THEN [err |-> errOutOfRangeChain]
        ELSE IF last.err # noErr THEN [err |-> last.err]
        ELSE [err |-> noErr,
              snap |-> [Number |-> pre.Number + Len(hdrs),
                        Hash |-> HeaderHash(hdrs[Len(hdrs)]),
                        ValidatorSet |-> last.ValidatorSet,
                        Recents |-> last.Recents]]

(***************************************************************************)
(* store and loadSnapshot.  json.Marshal writes the exported fields under  *)
(* their json names: numbers and map keys as decimal text, hashes and      *)
(* addresses as hex text; the unexported fields (config, sigcache, ethAPI, *)
(* the validator set's cached total) are not written.                      *)
(***************************************************************************)
RECURSIVE Decimal(_)
Decimal(n) == IF n < 10 THEN <<n>> ELSE Append(Decimal(n \div 10), n % 10)

RECURSIVE ParseDecimal(_)
ParseDecimal(digits) ==
    IF Len(digits) = 0 THEN 0
    ELSE 10 * ParseDecimal(SubSeq(digits, 1, Len(digits) - 1))
             + digits[Len(digits)]

HexText(bytes) == <<"0x", bytes>>
FromHexText(text) == text[2]

\* json.Marshal(s), s given with its references followed
MarshalNoRecents(s) ==
    [number |-> Decimal(s.Number),
     hash |-> HexText(s.Hash),
     validatorSet |->
         [validators |-> [i \in 1..Len(s.ValidatorSet.Validators) |->
                             HexText(s.ValidatorSet.Validators[i])],
          proposer |-> HexText(s.ValidatorSet.Proposer)],
     recents |-> EmptyMap]

Marshal(s) ==
    [number |-> Decimal(s.Number),
     hash |-> HexText(s.Hash),
     validatorSet |->
         [validators |-> [i \in 1..Len(s.ValidatorSet.Validators) |->
                             HexText(s.ValidatorSet.Validators[i])],
          proposer |-> HexText(s.ValidatorSet.Proposer)],
     recents |-> [k \in {Decimal(b) : b \in DOMAIN s.Recents} |->
                     HexText(s.Recents[ParseDecimal(k)])]]

\* json.Unmarshal(blob, snap) into a new Snapshot: the unexported fields
\* keep their zero values.
Unmarshal(blob) ==
    [Number |-> ParseDecimal(blob.number),
     Hash |-> FromHexText(blob.hash),
     ValidatorSet |->
         [Validators |-> [i \in 1..Len(blob.validatorSet.validators) |->
                             FromHexText(blob.validatorSet.validators[i])],
          Proposer |-> FromHexText(blob.validatorSet.proposer),
          totalVotingPower |-> 0],
     Recents |-> [b \in {ParseDecimal(k) : k \in DOMAIN blob.recents} |->
                     FromHexText(blob.recents[Decimal(b)])]]

\* the key of a snapshot record: "bor-" followed by the hash
storeKey(s) == <<"bor-", s.Hash>>

loadKey(hash) == <<"bor-", hash>>

Put(kv, key, blob) ==
    [k \in DOMAIN kv \cup {key} |-> IF k = key THEN blob ELSE kv[k]]

\* s.store(db)
Store(p) ==
    /\ p \in DOMAIN published
    /\ db' = [kv |-> Put(db.kv, storeKey(Value(p)), Marshal(Value(p))),
              stored |-> Put(db.stored, snaps[p].Hash, Value(p))]
    /\ loaded' = [status |-> "none"]
    /\ UNCHANGED <<snaps, vsHeap, recHeap, published, calls, weight>>

\* loadSnapshot(config, sigcache, db, hash, ethAPI)
Load(config, sigcache, hash, ethAPI) ==
    /\ IF loadKey(hash) \notin DOMAIN db.kv
       THEN loaded' = [status |-> "notFound", hash |-> hash]
       ELSE LET snap == Unmarshal(db.kv[loadKey(hash)])
            IN  loaded' =
                  [status |-> "ok", hash |-> hash,
                   args |-> [config |-> config, sigcache |-> sigcache,
                             ethAPI |-> ethAPI],
                   snap |-> [snap EXCEPT !.ValidatorSet =
                                updateTotalVotingPower(@)]
                            @@ [config |-> config, sigcache |-> sigcache,
                                ethAPI |-> ethAPI]]
    /\ UNCHANGED <<snaps, vsHeap, recHeap, published, calls, db, weight>>

(***************************************************************************)
(* inturn.  The result is within 1..len(validators), so the conversion to  *)
(* uint64 changes nothing.                                                 *)
(***************************************************************************)
inturnNoWrap(vs, number, signer, epoch) ==
    IF signer = ZeroAddress THEN 1
    ELSE Len(vs.Validators)
             - (GetByAddress(vs, signer) - GetByAddress(vs, GetProposer(vs)))

inturnNoSentinel(vs, number, signer, epoch) ==
    LET totalValidators == Len(vs.Validators)
        proposerIndex == GetByAddress(vs, GetProposer(vs))
        signerIndex == GetByAddress(vs, signer)
        tempIndex == IF signerIndex < proposerIndex
                     THEN signerIndex + totalValidators
                     ELSE signerIndex
    IN  totalValidators - (tempIndex - proposerIndex)

inturn(vs, number, signer, epoch) ==
    IF signer = ZeroAddress THEN 1
    ELSE LET totalValidators == Len(vs.Validators)
             proposerIndex == GetByAddress(vs, GetProposer(vs))
             signerIndex == GetByAddress(vs, signer)
             tempIndex == IF signerIndex < proposerIndex
                          THEN signerIndex + totalValidators
                          ELSE signerIndex
         IN  totalValidators - (tempIndex - proposerIndex)

Inturn(p, number, signer, epoch) ==
    /\ p \in DOMAIN published
    /\ weight' = [status |-> "ok", s |-> p, number |-> number,
                  signer |-> signer, epoch |-> epoch,
                  result |-> inturn(vsHeap[snaps[p].ValidatorSet],
                                    number, signer, epoch)]
    /\ UNCHANGED <<snaps, vsHeap, recHeap, published, calls, db, loaded>>

NoStore == [kv |-> EmptyMap, stored |-> EmptyMap]
NoLoad == [status |-> "none"]
NoWeight == [status |-> "none"]

\* The state after newSnapshot: one snapshot, no call, an empty store.  The
\* snapshot is built from all the validators, the first of them the
\* proposer; the other proposers come with the proposer steps and the
\* smaller sets with the candidate lists of the epoch blocks.
Init ==
    /\ \E number \in 0..MaxStart, sprintLen \in 1..MaxSprint :
          /\ snaps = (1 :> newSnapshot([Sprint |-> sprintLen], 1, number,
                                       GenesisHash(number), 1, 1, 1))
          /\ vsHeap = (1 :> NewValidatorSet(Addrs, SetMin(Addrs)))
    /\ recHeap = (1 :> EmptyMap)
    /\ published = (1 :> Value(1))
    /\ calls = [c \in Procs |-> IdleCall]
    /\ db = NoStore
    /\ loaded = NoLoad
    /\ weight = NoWeight

Next ==
    \/ \E p \in DOMAIN published : \E numbers \in Runs(snaps[p].Number) :
          ApplyEnter(1, p, numbers)
    \/ ApplyLoop(1)
    \/ ApplyReturn(1)

Spec == Init /\ [][Next]_vars

\* Any snapshot near the height where the decimal text of a number grows:
\* as loaded from a store, its recents need not be empty.
Heights == (MaxHeight - 2)..MaxHeight

InitAny ==
    /\ \E number \in Heights, sprintLen \in 1..MaxSprint, vs \in VSets :
       \E hash \in {GenesisHash(number),
                    HeaderHash(Header(number, ZeroAddress, {}, noErr))} :
          /\ snaps = (1 :> newSnapshot([Sprint |-> sprintLen], 1, number,
                                       hash, 1, 1, 1))
          /\ vsHeap = (1 :> vs)
          /\ \E blocks \in SUBSET {number - 1, number} :
                \E recents \in [blocks -> Addrs] : recHeap = (1 :> recents)
    /\ published = (1 :> Value(1))
    /\ calls = [c \in Procs |-> IdleCall]
    /\ db = NoStore
    /\ loaded = NoLoad
    /\ weight = NoWeight

NextStore ==
    \/ \E p \in DOMAIN published : Store(p)
    \/ \E p \in DOMAIN published :
          \E hash \in {snaps[p].Hash, GenesisHash(snaps[p].Number + 1)},
             sprintLen \in 1..MaxSprint, sigcache \in 1..2, ethAPI \in 1..2 :
             Load([Sprint |-> sprintLen], sigcache, hash, ethAPI)

SpecStore == InitAny /\ [][NextStore]_vars

NextInturn ==
    \E p \in DOMAIN published :
       \E number \in {0, snaps[p].Number + 1},
          signer \in Addrs \cup {NoSigner}, epoch \in 1..MaxSprint :
          Inturn(p, number, signer, epoch)

SpecInturn == InitAny /\ [][NextInturn]_vars

\* Two apply calls on one parent snapshot, their steps interleaved in any
\* order.  The parent is a snapshot of three validators, any of them the
\* proposer, with a full window of recents; each call is started once, on
\* any run of headers.
InitConc ==
    /\ \E vs \in {v \in VSets : Len(v.Validators) = 3} :
       LET number == MaxHeight
           first == vs.Validators[1]
       IN  /\ snaps = (1 :> newSnapshot([Sprint |-> MaxSprint], 1, number,
                                        GenesisHash(number), 1, 1, 1))
           /\ vsHeap = (1 :> vs)
           /\ recHeap = (1 :> ((number - 1 :> first)
                                   @@ (number :> vs.Proposer)))
    /\ published = (1 :> Value(1))
    /\ calls = [c \in Procs |-> IdleCall]
    /\ db = NoStore
    /\ loaded = NoLoad
    /\ weight = NoWeight

NextConc ==
    \E c \in Procs :
       \/ /\ calls[c].pc = "idle"
          /\ \E numbers \in Runs(snaps[1].Number) : ApplyEnter(c, 1, numbers)
       \/ ApplyLoop(c)
       \/ ApplyReturn(c)

SpecConc == InitConc /\ [][NextConc]_vars

(***************************************************************************)
(* Properties of apply.                                                    *)
(***************************************************************************)
Finished(c) == calls[c].pc = "done"

\* Header k of call c was read and passed every check of the loop body.
Accepted(c, k) ==
    /\ k <= Len(calls[c].hdrs)
    /\ ~(Finished(c) /\ calls[c].err # noErr /\ k = Len(calls[c].hdrs))

\* Header k of call c was read and made apply return err.
Rejected(c, k, err) ==
    /\ k = Len(calls[c].hdrs)
    /\ Finished(c)
    /\ calls[c].err = err

\* The position of addr in the validator list, counted from 0.
IndexOf(vs, addr) ==
    Cardinality({j \in 1..Len(vs.Validators) :
                    \E m \in j + 1..Len(vs.Validators) :
                        vs.Validators[m] = addr})

\* The cyclic forward distance of signer from the proposer.
Distance(vs, signer) ==
    (IndexOf(vs, signer) - IndexOf(vs, vs.Proposer)) % Len(vs.Validators)

\* The header reads (call, position) whose signer is a member of the
\* validator set in force.
MemberReads ==
    {ck \in Procs \X (1..MaxRun + 1) :
        /\ ck[2] <= Len(calls[ck[1]].hdrs)
        /\ calls[ck[1]].hdrs[ck[2]].Signer \in
               Range(calls[ck[1]].sets[ck[2]].Validators)}

\* C1: a non-empty run with a gap, a repeat or a descent between adjacent
\* headers, or not starting at s.Number + 1, makes apply return
\* errOutOfRangeChain and no snapshot, before any header is looked into.
C1_OutOfRange ==
    \A c \in Procs :
        LET cl == calls[c]
        IN  ( /\ Finished(c)
              /\ Len(cl.numbers) > 0
              /\ \/ \E i \in 1..(Len(cl.numbers) - 1) :
                        cl.numbers[i + 1] # cl.numbers[i] + 1
                 \/ cl.numbers[1] # cl.pre.Number + 1 )
            => /\ cl.err = errOutOfRangeChain
               /\ cl.ret = Nil
               /\ cl.hdrs = <<>>

C1_Witness ==
    \E c \in Procs :
        /\ Finished(c)
        /\ Len(calls[c].numbers) = 2
        /\ calls[c].numbers[1] = calls[c].pre.Number + 1
        /\ calls[c].numbers[2] > calls[c].numbers[1] + 1
        /\ calls[c].err = errOutOfRangeChain

\* C2 as stated: a member signer at distance d from the proposer is rejected
\* with errRecentlySigned whenever d > limit and accepted whenever d <= limit.
C2_AsStated ==
    \A ck \in MemberReads :
        LET vs == calls[ck[1]].sets[ck[2]]
            d == Distance(vs, calls[ck[1]].hdrs[ck[2]].Signer)
            limit == Len(vs.Validators) - ((Len(vs.Validators) \div 2) + 1)
        IN  IF d > limit THEN Rejected(ck[1], ck[2], errRecentlySigned)
            ELSE Accepted(ck[1], ck[2])

\* C2: a member signer at distance d from the proposer is rejected with
\* errRecentlySigned exactly when limit > 0 and d > limit; with limit = 0
\* (one or two validators) every member is accepted.
C2_RotationBound ==
    \A ck \in MemberReads :
        LET vs == calls[ck[1]].sets[ck[2]]
            d == Distance(vs, calls[ck[1]].hdrs[ck[2]].Signer)
            limit == Len(vs.Validators) - ((Len(vs.Validators) \div 2) + 1)
        IN  IF limit > 0 /\ d > limit
            THEN Rejected(ck[1], ck[2], errRecentlySigned)
            ELSE Accepted(ck[1], ck[2])

C2_Witness ==
    \E ck \in MemberReads :
        LET vs == calls[ck[1]].sets[ck[2]]
        IN  /\ Len(vs.Validators) = 3
            /\ Distance(vs, calls[ck[1]].hdrs[ck[2]].Signer) = 2
            /\ Rejected(ck[1], ck[2], errRecentlySigned)

\* The reads of a one-header run under three validators whose proposer is
\* the first of them.
ThreeValidatorReads ==
    {ck \in MemberReads :
        /\ ck[2] = 1
        /\ Len(calls[ck[1]].numbers) = 1
        /\ Len(calls[ck[1]].sets[1].Validators) = 3
        /\ calls[ck[1]].sets[1].Proposer = calls[ck[1]].sets[1].Validators[1]}

C4_AtomicFailure ==
    \A c \in Procs :
        (Finished(c) /\ calls[c].err # noErr)
            => /\ calls[c].ret = Nil
               /\ Value(calls[c].s) = calls[c].pre

\* A failure at the second header of a run whose first header evicted an
\* entry s holds and swapped the validator set.
C4_Witness ==
    \E c \in Procs :
        /\ Finished(c)
        /\ calls[c].err \in {errMissingSignature, errUnauthorizedSigner,
                             errRecentlySigned}
        /\ Len(calls[c].hdrs) = 2
        /\ calls[c].numbers[1] - snaps[calls[c].s].config.Sprint
               \in DOMAIN calls[c].pre.Recents
        /\ calls[c].sets[1] # calls[c].pre.ValidatorSet

\* The validator set in force before header k of call c.
SetBefore(c, k) ==
    IF k = 1 THEN calls[c].pre.ValidatorSet ELSE calls[c].sets[k - 1]

\* The header reads (call, position) whose signer was recovered.
SignedReads ==
    {ck \in Procs \X (1..MaxRun + 1) :
        /\ ck[2] <= Len(calls[ck[1]].hdrs)
        /\ calls[ck[1]].hdrs[ck[2]].Signer # NoSigner}

\* C5: the validator set is replaced by the merge with the header's
\* candidate list, advanced by one proposer step, at a header exactly when
\* number > 0 and (number + 1) % sprint = 0; at every other header it is
\* left as it was, so no address enters the set but at such a header.
C5_EpochSwap ==
    \A ck \in SignedReads :
        LET c == ck[1]
            h == calls[c].hdrs[ck[2]]
            sprintLen == snaps[calls[c].s].config.Sprint
            before == SetBefore(c, ck[2])
            after == calls[c].sets[ck[2]]
        IN  /\ IF h.Number > 0 /\ (h.Number + 1) % sprintLen = 0
               THEN after = IncrementProposerPriority(
                                getUpdatedValidatorSet(before, h.NewVals), 1)
               ELSE after = before
            /\ Range(after.Validators) \subseteq
                   Range(before.Validators) \cup
                       (IF (h.Number + 1) % sprintLen = 0
                        THEN h.NewVals ELSE {})
            /\ (Accepted(c, ck[2]) /\ calls[c].snap # Nil
                   /\ ck[2] = Len(calls[c].hdrs))
                   => vsHeap[snaps[calls[c].snap].ValidatorSet] = after

\* A returned run holding a header that swapped in a new member and a
\* header that changed nothing.
C5_Witness ==
    \E c \in Procs :
        /\ Finished(c)
        /\ calls[c].ret # Nil
        /\ Len(calls[c].hdrs) = 2
        /\ Range(calls[c].sets[1].Validators)
               # Range(calls[c].pre.ValidatorSet.Validators)
        /\ (calls[c].hdrs[2].Number + 1)
               % snaps[calls[c].s].config.Sprint # 0
        /\ calls[c].sets[2] = calls[c].sets[1]

\* C6: a snapshot created with empty recents and advanced by k >= sprint
\* applied headers holds at most sprint recents entries, none at a height
\* <= number - sprint.
C6_WindowBound ==
    \A p \in DOMAIN published :
        LET k == snaps[p].Number - snaps[1].Number
            sprintLen == snaps[p].config.Sprint
            recents == recHeap[snaps[p].Recents]
        IN  k >= sprintLen
                => /\ Cardinality(DOMAIN recents) <= sprintLen
                   /\ \A b \in DOMAIN recents : b > snaps[p].Number - sprintLen

\* More headers applied than the window holds, over two apply calls.
C6_Witness ==
    \E p \in DOMAIN published :
        /\ snaps[p].Number - snaps[1].Number > snaps[p].config.Sprint
        /\ Cardinality(DOMAIN recHeap[snaps[p].Recents])
               = snaps[p].config.Sprint
        /\ \E c \in Procs : calls[c].ret = p /\ calls[c].s # 1

\* C7: apply(s, []) returns s itself without error, s being what it was,
\* with no header read.
C7_Identity ==
    \A c \in Procs :
        (Finished(c) /\ calls[c].numbers = <<>>)
            => /\ calls[c].err = noErr
               /\ calls[c].ret = calls[c].s
               /\ Value(calls[c].ret) = calls[c].pre
               /\ calls[c].hdrs = <<>>
               /\ published[calls[c].s] = calls[c].pre

C7_Witness ==
    \E c \in Procs :
        /\ Finished(c)
        /\ calls[c].numbers = <<>>
        /\ calls[c].ret = calls[c].s
        /\ calls[c].pre.Recents # <<>>

\* C8 as stated: every snapshot apply returns has a validator set and a
\* recents map of its own, distinct from those of the snapshot it came from.
C8_AsStated ==
    \A c \in Procs :
        (Finished(c) /\ calls[c].ret # Nil)
            => /\ snaps[calls[c].ret].ValidatorSet
                      # snaps[calls[c].s].ValidatorSet
               /\ snaps[calls[c].ret].Recents # snaps[calls[c].s].Recents

\* C8: no two snapshot objects share a validator set or a recents map (a
\* snapshot returned for a non-empty run is a new object, apply(s, [])
\* returns s itself), and every snapshot handed out stays as it was then.
C8_NoSharing ==
    /\ \A p, q \in DOMAIN snaps :
          p # q => /\ snaps[p].ValidatorSet # snaps[q].ValidatorSet
                   /\ snaps[p].Recents # snaps[q].Recents
    /\ \A c \in Procs :
          (Finished(c) /\ calls[c].ret # Nil /\ calls[c].numbers # <<>>)
              => calls[c].ret # calls[c].s
    /\ \A p \in DOMAIN published : Value(p) = published[p]

\* A chain s0 -> s1 -> s2 whose last apply evicted and swapped.
C8_Witness ==
    \E c \in Procs :
        /\ Finished(c)
        /\ calls[c].ret \notin {Nil, calls[c].s}
        /\ calls[c].s # 1
        /\ Value(calls[c].ret).ValidatorSet # Value(calls[c].s).ValidatorSet
        /\ DOMAIN Value(calls[c].ret).Recents
               \cap DOMAIN Value(calls[c].s).Recents = {}
        /\ Value(calls[c].s).Recents # <<>>

\* The header reads (call, position) at an epoch block whose signer was
\* recovered.
EpochReads ==
    {ck \in SignedReads :
        LET number == calls[ck[1]].hdrs[ck[2]].Number
        IN  /\ number > 0
            /\ (number + 1) % snaps[calls[ck[1]].s].config.Sprint = 0}

\* The validator set an epoch header read at (call, position) ck leaves in
\* force: the set before it merged with its candidate list, the proposer
\* advanced by one step.
SetSwapped(ck) ==
    IncrementProposerPriority(
        getUpdatedValidatorSet(SetBefore(ck[1], ck[2]),
                               calls[ck[1]].hdrs[ck[2]].NewVals), 1)

\* C13: at an epoch header the membership check and the turn-distance check
\* read the validator set and proposer left by the swap of that header: a
\* signer of the set before that the swap removed is rejected with
\* errUnauthorizedSigner, a signer only the swap brought in is not, and a
\* member of the new set is rejected with errRecentlySigned exactly by its
\* distance from the new proposer.
C13_ChecksAfterSwap ==
    \A ck \in EpochReads :
        LET c == ck[1]
            k == ck[2]
            signer == calls[c].hdrs[k].Signer
            before == SetBefore(c, k)
            after == SetSwapped(ck)
            total == Len(after.Validators)
            limit == total - ((total \div 2) + 1)
        IN  /\ (signer \in Range(before.Validators)
                   /\ signer \notin Range(after.Validators))
                   => Rejected(c, k, errUnauthorizedSigner)
            /\ (signer \notin Range(before.Validators)
                   /\ signer \in Range(after.Validators))
                   => ~Rejected(c, k, errUnauthorizedSigner)
            /\ signer \in Range(after.Validators)
                   => IF limit > 0 /\ Distance(after, signer) > limit
                      THEN Rejected(c, k, errRecentlySigned)
                      ELSE Accepted(c, k)

\* A run of two epoch headers: the first signed by an address only its swap
\* brought in and accepted, the second signed by a member its swap removed
\* and rejected.
C13_Witness ==
    \E c \in Procs :
        /\ Finished(c)
        /\ Len(calls[c].hdrs) = 2
        /\ {<<c, 1>>, <<c, 2>>} \subseteq EpochReads
        /\ calls[c].hdrs[1].Signer
               \notin Range(SetBefore(c, 1).Validators)
        /\ calls[c].hdrs[1].Signer
               \in Range(SetSwapped(<<c, 1>>).Validators)
        /\ calls[c].hdrs[2].Signer \in Range(SetBefore(c, 2).Validators)
        /\ calls[c].hdrs[2].Signer
               \notin Range(SetSwapped(<<c, 2>>).Validators)
        /\ calls[c].err = errUnauthorizedSigner

\* The signers recents holds, when header k of call c is checked, for the
\* heights of the window that the eviction at that header leaves: those
\* written by the earlier headers of the run, and those s came with.
WindowSigners(c, k) ==
    LET cl == calls[c]
        number == cl.hdrs[k].Number
        sprintLen == snaps[cl.s].config.Sprint
    IN  {cl.hdrs[j].Signer :
            j \in {i \in 1..(k - 1) : cl.hdrs[i].Number > number - sprintLen}}
            \cup {cl.pre.Recents[b] :
                      b \in {x \in DOMAIN cl.pre.Recents :
                                 /\ x > number - sprintLen
                                 /\ x < cl.numbers[1]}}

\* C14: apply rejects a header whose signer recents still holds for one of
\* the last sprint heights; the signer signs again only once its entry, at
\* height number - sprint, has been evicted.
C14_RecentsGate ==
    \A ck \in SignedReads :
        calls[ck[1]].hdrs[ck[2]].Signer \in WindowSigners(ck[1], ck[2])
            => ~Accepted(ck[1], ck[2])

\* The validator set in force at header k of call c: the set before it,
\* swapped when the header is an epoch block whose signer was recovered.
SetInForce(c, k) ==
    LET signer == calls[c].hdrs[k].Signer
        number == calls[c].hdrs[k].Number
    IN  IF /\ signer # NoSigner
           /\ number > 0
           /\ (number + 1) % snaps[calls[c].s].config.Sprint = 0
        THEN SetSwapped(<<c, k>>)
        ELSE SetBefore(c, k)

\* The error the checks give for header k of call c when made in the order
\* signer recovery, membership in the set in force (after the swap at an
\* epoch header), turn distance from its proposer; noErr when all pass.
FirstFailure(c, k) ==
    LET signer == calls[c].hdrs[k].Signer
        vs == SetInForce(c, k)
        total == Len(vs.Validators)
        limit == total - ((total \div 2) + 1)
    IN  IF signer = NoSigner THEN errMissingSignature
        ELSE IF signer \notin Range(vs.Validators)
             THEN errUnauthorizedSigner
        ELSE IF limit > 0 /\ Distance(vs, signer) > limit
             THEN errRecentlySigned
        ELSE noErr

\* C16: apply reports the earliest failing check.  A run that is not
\* contiguous or not adjacent to s fails with errOutOfRangeChain before any
\* header is read; the headers are read in the order of the run, every
\* header before the last one read passed all its checks, and the error
\* returned is the first failure of the last one read: errMissingSignature
\* (with the validator set left as it was) before errUnauthorizedSigner
\* before errRecentlySigned.
C16_ErrorPrecedence ==
    \A c \in Procs :
        LET cl == calls[c]
        IN  /\ ( /\ Finished(c)
                 /\ Len(cl.numbers) > 0
                 /\ \/ \E i \in 1..(Len(cl.numbers) - 1) :
                           cl.numbers[i + 1] # cl.numbers[i] + 1
                    \/ cl.numbers[1] # cl.pre.Number + 1 )
                   => (cl.err = errOutOfRangeChain /\ cl.hdrs = <<>>)
            /\ \A k \in 1..Len(cl.hdrs) :
                  /\ cl.hdrs[k].Number = cl.numbers[k]
                  /\ Accepted(c, k) => FirstFailure(c, k) = noErr
                  /\ cl.hdrs[k].Signer = NoSigner
                        => cl.sets[k] = SetBefore(c, k)
            /\ (Finished(c) /\ cl.err \notin {noErr, errOutOfRangeChain})
                   => /\ cl.hdrs # <<>>
                      /\ cl.err = FirstFailure(c, Len(cl.hdrs))
            /\ (Finished(c) /\ cl.err = noErr /\ cl.numbers # <<>>)
                   => Len(cl.hdrs) = Len(cl.numbers)

\* A second header signed by a non-member under three validators, at a
\* turn distance (taken with the index of a non-member) beyond the limit.
C16_Witness ==
    \E c \in Procs :
        /\ Finished(c)
        /\ Len(calls[c].hdrs) = 2
        /\ calls[c].err = errUnauthorizedSigner
        /\ Len(calls[c].sets[2].Validators) = 3
        /\ calls[c].sets[2].Proposer = calls[c].sets[2].Validators[1]
        /\ calls[c].hdrs[2].Signer \notin Range(calls[c].sets[2].Validators)

\* The calls made on a snapshot an earlier apply returned (its hash is the
\* hash of a header, whose first component is the header's number), with a
\* non-empty contiguous run.
FollowingCalls ==
    {c \in Procs :
        /\ calls[c].pc # "idle"
        /\ calls[c].pre.Hash[2] # NoSigner
        /\ calls[c].numbers # <<>>
        /\ \A i \in 1..(Len(calls[c].numbers) - 1) :
              calls[c].numbers[i + 1] = calls[c].numbers[i] + 1}

\* C17: the snapshot returned for n >= 1 headers has number s.Number + n,
\* which is the number of the last header, and the hash of the last
\* header; a contiguous run offered to a returned snapshot passes the
\* adjacency check exactly when it starts one past the number of the last
\* header applied.
C17_NumberAndHash ==
    /\ \A c \in Procs :
          (Finished(c) /\ calls[c].ret # Nil /\ calls[c].numbers # <<>>)
              => LET cl == calls[c]
                     n == Len(cl.numbers)
                     got == published[cl.ret]
                 IN  /\ Len(cl.hdrs) = n
                     /\ got.Number = cl.pre.Number + n
                     /\ got.Number = cl.hdrs[n].Number
                     /\ got.Hash = HeaderHash(cl.hdrs[n])
                     /\ Value(cl.ret).Number = got.Number
                     /\ Value(cl.ret).Hash = got.Hash
    /\ \A c \in FollowingCalls :
          (calls[c].numbers[1] = calls[c].pre.Hash[1] + 1)
              <=> ~(Finished(c) /\ calls[c].err = errOutOfRangeChain)

\* A run of two headers applied to a snapshot an earlier apply returned.
C17_Witness ==
    \E c \in FollowingCalls :
        /\ Finished(c)
        /\ calls[c].ret # Nil
        /\ Len(calls[c].numbers) = 2
        /\ published[calls[c].ret].Number = calls[c].pre.Hash[1] + 2
        /\ published[calls[c].ret].Hash # calls[c].pre.Hash

\* The headers of the run a returned call applied that lie within the last
\* sprint heights of the result, as (call, position).
WindowReads ==
    {ck \in Procs \X (1..MaxRun + 1) :
        /\ Finished(ck[1])
        /\ calls[ck[1]].ret # Nil
        /\ ck[2] <= Len(calls[ck[1]].hdrs)
        /\ calls[ck[1]].hdrs[ck[2]].Number
               > published[calls[ck[1]].ret].Number
                     - snaps[calls[ck[1]].s].config.Sprint}

\* Every applied header within the window is recorded in the result under
\* its number with its recovered signer, a member of the set in force.
Recorded ==
    \A ck \in WindowReads :
        LET h == calls[ck[1]].hdrs[ck[2]]
            got == published[calls[ck[1]].ret]
        IN  /\ h.Number \in DOMAIN got.Recents
            /\ got.Recents[h.Number] = h.Signer
            /\ h.Signer # NoSigner
            /\ h.Signer \in Range(SetInForce(ck[1], ck[2]).Validators)
            /\ Value(calls[ck[1]].ret).Recents = got.Recents

\* C18 as stated: every applied header within the window is recorded, and a
\* header signed by the proposer of the snapshot it is applied to is
\* accepted.
C18_AsStated ==
    /\ Recorded
    /\ \A ck \in SignedReads :
          calls[ck[1]].hdrs[ck[2]].Signer = SetBefore(ck[1], ck[2]).Proposer
              => Accepted(ck[1], ck[2])

\* C18: every applied header within the window is recorded in the result
\* with its signer, a member of the set in force at the header; a header
\* signed by the proposer of the set in force at it (after the swap and the
\* proposer step of an epoch header) is accepted, and written to recents
\* at once.
C18_Record ==
    /\ Recorded
    /\ \A ck \in SignedReads :
          LET c == ck[1]
              h == calls[c].hdrs[ck[2]]
          IN  /\ h.Signer = SetInForce(c, ck[2]).Proposer
                    => Accepted(c, ck[2])
              /\ (Accepted(c, ck[2]) /\ ck[2] = Len(calls[c].hdrs)
                     /\ calls[c].snap # Nil)
                    => /\ h.Number
                              \in DOMAIN recHeap[snaps[calls[c].snap].Recents]
                       /\ recHeap[snaps[calls[c].snap].Recents][h.Number]
                              = h.Signer

\* A returned run of two headers under sprint 2 and three validators: the
\* first an epoch header signed by the proposer its own swap made, who is
\* not the proposer of the snapshot, the second signed by the same
\* proposer; both are in the recents of the result.
C18_Witness ==
    \E c \in Procs :
        /\ {<<c, 1>>, <<c, 2>>} \subseteq WindowReads
        /\ <<c, 1>> \in EpochReads
        /\ Len(SetInForce(c, 1).Validators) = 3
        /\ calls[c].hdrs[1].Signer = SetInForce(c, 1).Proposer
        /\ calls[c].hdrs[1].Signer # SetBefore(c, 1).Proposer
        /\ calls[c].hdrs[2].Signer = SetInForce(c, 2).Proposer
        /\ published[calls[c].ret].Recents[calls[c].hdrs[1].Number]
               = calls[c].hdrs[1].Signer

\* C15: an epoch header whose candidate list ParseValidators fails to
\* parse makes apply return an error and no snapshot; apply never goes on
\* with a validator set computed from the unparsed list.
C15_ParseFailureAborts ==
    \A ck \in EpochReads :
        calls[ck[1]].hdrs[ck[2]].ParseErr # noErr
            => /\ ~Accepted(ck[1], ck[2])
               /\ Finished(ck[1]) => calls[ck[1]].ret = Nil

(***************************************************************************)
(* Properties of store, loadSnapshot and inturn.                           *)
(***************************************************************************)
\* C9: loading by the hash of a stored snapshot succeeds and yields its
\* number, hash, validator set and recents; storing the loaded snapshot
\* writes the same record under the same key; config, sigcache and ethAPI
\* are the ones passed to loadSnapshot.
C9_RoundTrip ==
    (loaded.status # "none" /\ loaded.hash \in DOMAIN db.stored)
        => /\ loaded.status = "ok"
           /\ LET s == db.stored[loaded.hash]
                  got == loaded.snap
              IN  /\ got.Number = s.Number
                  /\ got.Hash = s.Hash
                  /\ got.ValidatorSet = s.ValidatorSet
                  /\ got.Recents = s.Recents
                  /\ storeKey(got) = <<"bor-", s.Hash>>
                  /\ Put(db.kv, storeKey(got), Marshal(got)) = db.kv
                  /\ got.config = loaded.args.config
                  /\ got.sigcache = loaded.args.sigcache
                  /\ got.ethAPI = loaded.args.ethAPI

\* A snapshot at the greatest height with recents at the last two heights
\* (one and two decimal digits), loaded with a config other than the one it
\* was stored with.
C9_Witness ==
    /\ loaded.status = "ok"
    /\ loaded.snap.Number = MaxHeight
    /\ DOMAIN loaded.snap.Recents = {MaxHeight - 1, MaxHeight}
    /\ loaded.snap.Recents[MaxHeight - 1] # loaded.snap.Recents[MaxHeight]
    /\ Len(Decimal(MaxHeight - 1)) # Len(Decimal(MaxHeight))
    /\ loaded.snap.config # snaps[1].config
    /\ Len(loaded.snap.ValidatorSet.Validators) > 1

\* C10: for a non-zero member signer at cyclic distance d from the proposer
\* inturn returns total - d: a value in 1..total, total exactly for the
\* proposer, larger for a closer signer, whatever number and epoch are.
C10_InturnWeight ==
    (weight.status = "ok" /\ weight.signer # ZeroAddress
        /\ weight.signer \in
               Range(vsHeap[snaps[weight.s].ValidatorSet].Validators))
        => LET vs == vsHeap[snaps[weight.s].ValidatorSet]
               total == Len(vs.Validators)
               d == Distance(vs, weight.signer)
           IN  /\ weight.result = total - d
               /\ weight.result \in 1..total
               /\ (weight.result = total) <=> (weight.signer = vs.Proposer)
               /\ \A other \in Range(vs.Validators) \ {ZeroAddress} :
                     Distance(vs, other) < d
                         => inturn(vs, weight.number, other, weight.epoch)
                                > weight.result
               /\ \A number \in 0..MaxHeight + 1, epoch \in 1..MaxSprint + 1 :
                     inturn(vs, number, weight.signer, epoch) = weight.result

\* A signer placed before the proposer in the list, so that the distance
\* wraps around.
C10_Witness ==
    /\ weight.status = "ok"
    /\ weight.signer # ZeroAddress
    /\ LET vs == vsHeap[snaps[weight.s].ValidatorSet]
       IN  /\ weight.signer \in Range(vs.Validators)
           /\ Len(vs.Validators) = 3
           /\ IndexOf(vs, weight.signer) < IndexOf(vs, vs.Proposer)
           /\ weight.result = 1

\* C11: whatever the snapshot holds (the zero address may be a validator,
\* or the proposer) and whatever number and epoch are, inturn returns 1 for
\* the zero address.
C11_ZeroSigner ==
    (weight.status = "ok" /\ weight.signer = ZeroAddress)
        => weight.result = 1

\* The zero address is the proposer of three validators, asked about at
\* the next height: its rotation weight would be 3.
C11_Witness ==
    /\ weight.status = "ok"
    /\ weight.signer = ZeroAddress
    /\ weight.number = snaps[weight.s].Number + 1
    /\ LET vs == vsHeap[snaps[weight.s].ValidatorSet]
       IN  /\ Len(vs.Validators) = 3
           /\ vs.Proposer = ZeroAddress
           /\ recHeap[snaps[weight.s].Recents] # <<>>
    /\ weight.result = 1

(***************************************************************************)
(* Properties of two apply calls.                                          *)
(***************************************************************************)
\* The persisted fields of the snapshot call c returned, as handed out.
Outcome(c) ==
    IF calls[c].ret = Nil THEN [err |-> calls[c].err]
    ELSE [err |-> calls[c].err, snap |-> published[calls[c].ret]]

\* Two finished calls were given the same inputs: equal snapshots, the same
\* run, and the same signer and candidate list for every header both read.
SameInputs(c, d) ==
    /\ Finished(c)
    /\ Finished(d)
    /\ calls[c].pre = calls[d].pre
    /\ snaps[calls[c].s].config = snaps[calls[d].s].config
    /\ calls[c].numbers = calls[d].numbers
    /\ \A k \in 1..Len(calls[c].hdrs) :
          k <= Len(calls[d].hdrs) => calls[c].hdrs[k] = calls[d].hdrs[k]

Forks == {c \in Procs : Finished(c) /\ calls[c].err # errOutOfRangeChain}

\* C19: two apply calls on one parent, their steps interleaved in any
\* order: each returns the outcome apply gives for its run when no other
\* call is in between, no two snapshot objects (the parent, the working
\* copies, the results) share a validator set or a recents map, a result
\* stays what it was when returned, and the parent is unchanged.
C19_ForkIndependence ==
    /\ \A c \in Forks :
          /\ Outcome(c) = applyAlone(calls[c].pre,
                                     snaps[calls[c].s].config.Sprint,
                                     calls[c].hdrs)
          /\ calls[c].err = noErr
                => calls[c].numbers
                       = [k \in 1..Len(calls[c].hdrs) |->
                             calls[c].hdrs[k].Number]
    /\ \A p, q \in DOMAIN snaps :
          p # q => /\ snaps[p].ValidatorSet # snaps[q].ValidatorSet
                   /\ snaps[p].Recents # snaps[q].Recents
    /\ \A p \in DOMAIN published : Value(p) = published[p]
    /\ \A c \in Procs :
          calls[c].pc # "idle" => Value(calls[c].s) = calls[c].pre

\* Two forks of two headers from the same parent, both returned, their
\* first headers signed by different signers; the second call made its
\* copy before the first call swapped its validator set (the first call's
\* set is the fourth allocated), so their steps were interleaved.
C19_Witness ==
    /\ Forks = {1, 2}
    /\ calls[1].s = calls[2].s
    /\ calls[1].ret \notin {Nil, calls[1].s}
    /\ calls[2].ret \notin {Nil, calls[2].s, calls[1].ret}
    /\ Len(calls[1].hdrs) = 2
    /\ Len(calls[2].hdrs) = 2
    /\ calls[1].hdrs[1].Signer # calls[2].hdrs[1].Signer
    /\ calls[1].hdrs[2].Signer # calls[2].hdrs[2].Signer
    /\ snaps[calls[1].ret].ValidatorSet = 4
    /\ DOMAIN calls[1].pre.Recents
           \cap DOMAIN published[calls[1].ret].Recents = {}

\* The calls made on a snapshot one header above the first snapshot: the
\* snapshot is what apply returned for that header (the header its hash is
\* the hash of) on the first snapshot; the call is the second of a split.
SecondCalls ==
    {c \in Forks :
        /\ calls[c].s # 1
        /\ calls[c].pre.Number = published[1].Number + 1}

\* The header a snapshot's hash is the hash of.
HashedHeader(hash) == Header(hash[1], hash[2], hash[3], hash[4])

====
